---- MODULE Spec2Model ----
(***************************************************************************)
(* Model of two pieces of the quickwit repository:                         *)
(*   - quickwit-serve/src/decompression_filter.rs : the warp filter        *)
(*     decompress() and its helper decompress_body();                      *)
(*   - quickwit-index/src/actors/publisher.rs : the Publisher actor.       *)
(* The decoders (flate2, brotli, zstd) are external crates; they are       *)
(* modelled by a small run-length container format so that decoding is a   *)
(* real computation that can fail, expand its input, and differ per        *)
(* algorithm.  The actor runtime (quickwit_actors) and the metastore       *)
(* (quickwit_metastore) are other crates of the repository; the little of  *)
(* them that is needed is modelled from the specification.                 *)
(***************************************************************************)
EXTENDS Integers, Sequences, FiniteSets, TLC

VARIABLES
    encoding,     \* Option<String>: the Content-Encoding header of the request
    body,         \* bytes::Bytes: the request body
    response,     \* what the filter produced for the request, NoResponse before
    inbox,        \* the Publisher's mailbox: messages delivered, not yet handled
    handled,      \* messages handed to process_message, with its return value
    metastore,    \* state of the object behind Publisher.metastore
    actorState,   \* "Running" or "Stopped"
    shutdown      \* TRUE once the context has signalled shutdown

vars == <<encoding, body, response, inbox, handled, metastore, actorState, shutdown>>
dsVars == <<encoding, body, response>>
paVars == <<inbox, handled, metastore, actorState, shutdown>>

----------------------------------------------------------------------------
(* Bounds *)
MaxBodyLen == 3
MaxByte == 3
MaxMsgs == 2
MaxCheckpoint == 2

(* Configuration options named by the specification (absent from the code) *)
max_decoded_body_bytes == 2
publish_retry_max_attempts == 2

----------------------------------------------------------------------------
(* Decompression filter *)

Byte == 0..MaxByte

RECURSIVE SeqsUpTo(_, _)
SeqsUpTo(S, n) ==
    IF n = 0 THEN {<<>>}
    ELSE LET shorter == SeqsUpTo(S, n - 1)
         IN  shorter \cup {Append(s, x) : s \in {t \in shorter : Len(t) = n - 1}, x \in S}

Bodies == SeqsUpTo(Byte, MaxBodyLen)

None == <<>>
Some(s) == <<s>>
Encodings == {None} \cup {Some(s) : s \in {"gzip", "br", "zstd", "GZIP", "deflate", ""}}

\* enum CompressionAlgorithm
CompressionAlgorithm == {"Gzip", "Brotli", "Zstd"}

\* The leading byte that identifies a stream of each container format.
Magic(algorithm) ==
    CASE algorithm = "Gzip" -> 1
      [] algorithm = "Brotli" -> 2
      [] algorithm = "Zstd" -> 3

RECURSIVE Repeat(_, _)
Repeat(b, n) == IF n = 0 THEN <<>> ELSE <<b>> \o Repeat(b, n - 1)

\* The expansion of a sequence of (count, byte) runs.
RECURSIVE Inflate(_)
Inflate(runs) ==
    IF Len(runs) < 2 THEN <<>>
    ELSE Repeat(runs[2], runs[1]) \o Inflate(SubSeq(runs, 3, Len(runs)))

\* A stream is well formed when it starts with the magic byte of its format
\* and the rest is a whole number of runs; anything else is a decoder error.
WellFormed(algorithm, b) ==
    /\ Len(b) >= 1
    /\ b[1] = Magic(algorithm)
    /\ (Len(b) - 1) % 2 = 0

\* read_to_end of the decoder of `algorithm` over `b`: Ok(bytes) or Err.
read_to_end(algorithm, b) ==
    IF WellFormed(algorithm, b)
    THEN [ok |-> TRUE, bytes |-> Inflate(SubSeq(b, 2, Len(b)))]
    ELSE [ok |-> FALSE, bytes |-> <<>>]

Payload(bytes, decoder) ==
    [tag |-> "Ok", payload |-> bytes, rejection |-> "", decoder |-> decoder]
Reject(kind, decoder) ==
    [tag |-> "Rejection", payload |-> <<>>, rejection |-> kind, decoder |-> decoder]
NoResponse ==
    [tag |-> "None", payload |-> <<>>, rejection |-> "", decoder |-> "none"]

\* warp::reject(): the framework's plain not-found rejection.
warp_reject == "NotFound"

\* Every arm reads the decoder to the end into a fresh Vec and maps any
\* decoder error to warp::reject(); the Vec is returned whole, whatever its
\* length.
decompress_body(algorithm, b) ==
    LET r == read_to_end(algorithm, b)
    IN  IF r.ok THEN Payload(r.bytes, algorithm) ELSE Reject(warp_reject, algorithm)

\* decompress with header values matched without regard to case.
decompress_ignore_case(enc, b) ==
    CASE enc \in {Some("gzip"), Some("GZIP")} -> decompress_body("Gzip", b)
      [] enc = Some("br") -> decompress_body("Brotli", b)
      [] enc = Some("zstd") -> decompress_body("Zstd", b)
      [] enc = None -> Payload(b, "none")
      [] OTHER -> Reject("UnsupportedCompressionAlgorithm", "none")

\* decompress with a missing header treated as gzip.
decompress_default_gzip(enc, b) ==
    CASE enc \in {Some("gzip"), None} -> decompress_body("Gzip", b)
      [] enc = Some("br") -> decompress_body("Brotli", b)
      [] enc = Some("zstd") -> decompress_body("Zstd", b)
      [] OTHER -> Reject("UnsupportedCompressionAlgorithm", "none")

\* The closure of the filter decompress().
decompress(enc, b) ==
    CASE enc = Some("gzip") -> decompress_body("Gzip", b)
      [] enc = Some("br") -> decompress_body("Brotli", b)
      [] enc = Some("zstd") -> decompress_body("Zstd", b)
      [] enc = None -> Payload(b, "none")
      [] OTHER -> Reject("UnsupportedCompressionAlgorithm", "none")

\* One request goes through the filter.
Decompress ==
    /\ response = NoResponse
    /\ response' = decompress(encoding, body)
    /\ UNCHANGED <<encoding, body>>
    /\ UNCHANGED paVars

----------------------------------------------------------------------------
(* Publisher actor *)

SegmentIds == {"S1", "S2"}
KnownIndexes == {"I"}
IndexIds == KnownIndexes \cup {"U"}

\* crate::models::UploadedSplit, with the attributes the specification lists.
UploadedSplit ==
    [segment_id : SegmentIds, index_id : IndexIds, checkpoint : 1..MaxCheckpoint]

\* Metastore::publish_segment as the specification describes it: `transient`
\* calls fail first, then the call is judged against the catalog.
publish_segment(ms, m) ==
    LET called == [ms EXCEPT !.calls = Append(@, m.segment_id)]
    IN  IF ms.transient > 0
        THEN [outcome |-> "Transient", ms |-> [called EXCEPT !.transient = @ - 1]]
        ELSE IF m.index_id \notin KnownIndexes
        THEN [outcome |-> "UnknownIndex", ms |-> called]
        ELSE IF m.segment_id \in ms.segments
        THEN [outcome |-> "AlreadyPublished", ms |-> called]
        ELSE IF m.checkpoint < ms.checkpoint
        THEN [outcome |-> "StaleCheckpoint", ms |-> called]
        ELSE [outcome |-> "Ok",
              ms |-> [called EXCEPT !.segments = @ \cup {m.segment_id},
                                    !.checkpoint = m.checkpoint]]

\* The metastore's answer once its transient failures are over.
SettledOutcome(ms, m) == publish_segment([ms EXCEPT !.transient = 0], m).outcome

Unit == <<>>

\* Actor::observable_state: type ObservableState = ().
observable_state(self) == Unit

\* process_message that commits the split and propagates a metastore error.
process_message_failing(self, message) ==
    LET r == publish_segment(self, message)
    IN  [result |-> IF r.outcome \in {"Ok", "AlreadyPublished"} THEN "Ok" ELSE "Err",
         self |-> self]

\* process_message that commits the split to the metastore.
process_message_publishing(self, message) ==
    [result |-> "Ok", self |-> publish_segment(self, message).ms]

\* AsyncActor::process_message: prints "publishing" and returns Ok(()); the
\* message and the context are not used and self.metastore is not touched.
process_message(self, message) ==
    [result |-> "Ok", self |-> self]

\* The runtime stops an actor whose handler returns a MessageProcessError.
ActorAfter(result, state) == IF result = "Err" THEN "Stopped" ELSE state

Delivered == Len(handled) + Len(inbox)

\* A split is delivered to the Publisher's mailbox.
Send(m) ==
    /\ actorState = "Running"
    /\ Delivered < MaxMsgs
    /\ inbox' = Append(inbox, m)
    /\ UNCHANGED <<handled, metastore, actorState, shutdown>>
    /\ UNCHANGED dsVars

\* The runtime hands the head of the mailbox to process_message.
ProcessMessage ==
    /\ actorState = "Running"
    /\ inbox # <<>>
    /\ LET r == process_message(metastore, Head(inbox))
       IN  /\ metastore' = r.self
           /\ handled' = Append(handled, [message |-> Head(inbox), result |-> r.result])
           /\ actorState' = ActorAfter(r.result, actorState)
    /\ inbox' = Tail(inbox)
    /\ UNCHANGED shutdown
    /\ UNCHANGED dsVars

\* The context signals shutdown; the actor stops at the message boundary.
Shutdown ==
    /\ actorState = "Running"
    /\ shutdown' = TRUE
    /\ actorState' = "Stopped"
    /\ UNCHANGED <<inbox, handled, metastore>>
    /\ UNCHANGED dsVars

----------------------------------------------------------------------------
(* Specifications *)

InitRequest ==
    /\ encoding = None
    /\ body = <<>>
    /\ response = NoResponse

\* Publisher::new(metastore): the actor holds a handle on a metastore in any
\* state; nothing has been delivered.
InitPublisher ==
    /\ inbox = <<>>
    /\ handled = <<>>
    /\ actorState = "Running"
    /\ shutdown = FALSE

Init ==
    /\ InitRequest
    /\ InitPublisher
    /\ metastore \in [segments : SUBSET SegmentIds,
                       checkpoint : 0..MaxCheckpoint,
                       transient : 0..publish_retry_max_attempts,
                       calls : {<<>>}]

Next ==
    \/ \E m \in UploadedSplit : Send(m)
    \/ ProcessMessage
    \/ Shutdown

Spec == Init /\ [][Next]_vars

InitDS ==
    /\ encoding \in Encodings
    /\ body \in Bodies
    /\ response = NoResponse
    /\ InitPublisher
    /\ metastore = [segments |-> {}, checkpoint |-> 0, transient |-> 0, calls |-> <<>>]

NextDS == Decompress

SpecDS == InitDS /\ [][NextDS]_vars

----------------------------------------------------------------------------
(* Properties of the decompression filter, checked under SpecDS *)

Recognised == {Some("gzip"), Some("br"), Some("zstd")}
Answered == response # NoResponse
AlgorithmOf(enc) ==
    CASE enc = Some("gzip") -> "Gzip"
      [] enc = Some("br") -> "Brotli"
      [] enc = Some("zstd") -> "Zstd"

\* C1: a request whose Content-Encoding is present and is not exactly
\* "gzip", "br" or "zstd" is rejected with UnsupportedCompressionAlgorithm,
\* whatever its body, and gets no payload.
C1_ClosedSet ==
    (Answered /\ encoding # None /\ encoding \notin Recognised)
        => /\ response.tag = "Rejection"
           /\ response.rejection = "UnsupportedCompressionAlgorithm"
           /\ response.payload = <<>>

\* A "GZIP" request carrying a well-formed gzip stream has been rejected.
C1_Witness ==
    /\ Answered
    /\ encoding = Some("GZIP")
    /\ WellFormed("Gzip", body)
    /\ Len(body) > 1
    /\ response.rejection = "UnsupportedCompressionAlgorithm"

\* C2: without a Content-Encoding header the payload is the body, byte for
\* byte, for every body of at most max_decoded_body_bytes bytes, and no
\* decoder has run.
C2_PassThrough ==
    (Answered /\ encoding = None /\ Len(body) <= max_decoded_body_bytes)
        => /\ response.tag = "Ok"
           /\ Len(response.payload) = Len(body)
           /\ \A i \in 1..Len(body) : response.payload[i] = body[i]
           /\ response.decoder = "none"

\* A header-less body of exactly max_decoded_body_bytes bytes that is not a
\* stream of any format has been passed through.
C2_Witness ==
    /\ Answered
    /\ encoding = None
    /\ Len(body) = max_decoded_body_bytes
    /\ \A a \in CompressionAlgorithm : ~WellFormed(a, body)
    /\ response.tag = "Ok"
    /\ response.payload = body

\* C3: for a recognised encoding, a body that decodes to more than
\* max_decoded_body_bytes bytes is rejected with PayloadTooLarge, and no
\* payload longer than max_decoded_body_bytes is ever returned.
C3_BombSafety ==
    (Answered /\ encoding \in Recognised)
        => /\ (Len(read_to_end(AlgorithmOf(encoding), body).bytes) > max_decoded_body_bytes
                 => response.tag = "Rejection" /\ response.rejection = "PayloadTooLarge")
           /\ (response.tag = "Ok" => Len(response.payload) <= max_decoded_body_bytes)

\* C4: for a recognised encoding, a decoder error is answered with the
\* rejection MalformedBody, never with UnsupportedCompressionAlgorithm and
\* never with a payload.
C4_MalformedBody ==
    (Answered /\ encoding \in Recognised /\ ~read_to_end(AlgorithmOf(encoding), body).ok)
        => /\ response.tag = "Rejection"
           /\ response.rejection = "MalformedBody"
           /\ response.rejection # "UnsupportedCompressionAlgorithm"
           /\ response.payload = <<>>

----------------------------------------------------------------------------
(* Properties of the Publisher, checked under Spec *)

Last(s) == s[Len(s)]
Committable(ms, m) == ms.transient = 0 /\ SettledOutcome(ms, m) \in {"Ok", "AlreadyPublished"}
CallsFor(ms, m) == Cardinality({k \in 1..Len(ms.calls) : ms.calls[k] = m.segment_id})
\* The error kind an observable state reports; the unit value reports none.
last_error_kind(state) == IF state = Unit THEN "None" ELSE state.last_error_kind

\* C5: when the same split has just been handled twice in a row and the
\* metastore accepts it, both were acknowledged with success and its segment
\* is visible in the metastore (once: the visible segments are a set).
C5_Idempotence ==
    \A j \in 2..Len(handled) :
        (/\ j = Len(handled)
         /\ handled[j - 1].message = handled[j].message
         /\ handled[j].message.index_id \in KnownIndexes
         /\ metastore.transient = 0
         /\ handled[j].message.checkpoint >= metastore.checkpoint)
            => /\ handled[j - 1].result = "Ok"
               /\ handled[j].result = "Ok"
               /\ handled[j].message.segment_id \in metastore.segments

\* C6: the metastore has seen a publish_segment call for every handled
\* split, in the order the splits were handled.
C6_CommitOrder ==
    \E f \in [1..Len(handled) -> 1..Len(metastore.calls)] :
        /\ \A i \in 1..Len(handled) : metastore.calls[f[i]] = handled[i].message.segment_id
        /\ \A i, j \in 1..Len(handled) : i < j => f[i] < f[j]

\* C7: when the metastore has fewer than publish_retry_max_attempts
\* transient failures left and then accepts the split, handling the split
\* makes its segment visible, is acknowledged with success and leaves the
\* actor running.
C7_PublishedAfterTransient ==
    [][(/\ handled' # handled
        /\ metastore.transient < publish_retry_max_attempts
        /\ SettledOutcome(metastore, Head(inbox)) = "Ok")
          => /\ Head(inbox).segment_id \in metastore'.segments
             /\ Last(handled').result = "Ok"
             /\ actorState' = "Running"]_vars

\* C8: process_message never returns an error, whatever the split and
\* whatever the metastore would answer, so the actor is stopped only after
\* the context signalled shutdown.
C8_NeverStopsOnMessage ==
    /\ \A i \in 1..Len(handled) : handled[i].result = "Ok"
    /\ actorState = "Stopped" => shutdown

\* The actor is running with a split waiting after it handled one the
\* metastore would have refused.
C8_Witness ==
    /\ actorState = "Running"
    /\ inbox # <<>>
    /\ handled # <<>>
    /\ ~Committable(metastore, handled[1].message)

\* C9: when the metastore answers StaleCheckpoint or UnknownIndex for a
\* split, handling the split calls publish_segment exactly once for it,
\* leaves that kind in the observable last_error_kind and publishes nothing.
C9_DropWithoutRetry ==
    [][(/\ handled' # handled
        /\ metastore.transient = 0
        /\ SettledOutcome(metastore, Head(inbox)) \in {"StaleCheckpoint", "UnknownIndex"})
          => /\ CallsFor(metastore', Head(inbox)) = CallsFor(metastore, Head(inbox)) + 1
             /\ last_error_kind(observable_state(metastore')) = SettledOutcome(metastore, Head(inbox))
             /\ metastore'.segments = metastore.segments]_vars

\* C10: every step leaves the metastore as it was (no call on the handle,
\* same visible segments) and the observable state the same unit value, and
\* a step that handles a split returns Ok(()).
C10_NoEffect ==
    [][/\ metastore'.calls = metastore.calls
       /\ metastore'.segments = metastore.segments
       /\ metastore' = metastore
       /\ observable_state(metastore') = Unit
       /\ observable_state(metastore') = observable_state(metastore)
       /\ (handled' # handled => Last(handled').result = "Ok")]_vars

\* Two splits have been handled, the first one committable to a metastore
\* that does not hold its segment.
C10_Witness ==
    /\ Len(handled) = MaxMsgs
    /\ SettledOutcome(metastore, handled[1].message) = "Ok"
    /\ handled[1].message.segment_id \notin metastore.segments
    /\ metastore.calls = <<>>
====
